---- MODULE Spec2Model ----
(***************************************************************************)
(* Model of vgd_pavlodar_dump.py: the record tokenizer parse_line, the     *)
(* block segmenter parse_records and the page loop of main.                *)
(*                                                                         *)
(* A Python str is a sequence of characters; a character is a one-symbol   *)
(* string.  The Cyrillic letters of the gender codes are written in Latin  *)
(* transliteration: "d" is U+0434, "m" is U+043C, "zh" is U+0436 (each one *)
(* character of the line).  A dict is a TLA+ record whose DOMAIN is the    *)
(* set of its keys; Python's None is the value None.                       *)
(***************************************************************************)
EXTENDS Integers, Sequences, FiniteSets, TLC

VARIABLES
    line,         \* parse_line: the argument
    rec,          \* parse_line: the returned value
    rec2,         \* parse_line applied to rec["raw"]
    html,         \* parse_records: the argument
    records,      \* parse_records: the returned list
    page_num,     \* main: the loop variable
    page_html,    \* main: the value fetch_page returned for the current page
    all_records,  \* main: the accumulated list
    fetch_log,    \* main: the offsets fetch_page was called with, in order
    parse_log,    \* main: the pages parse_records was called for, in order
    served,       \* main: what fetch_page returned for each page fetched so far
    pc            \* position of the process of the specification at hand

vars == <<line, rec, rec2, html, records, page_num, page_html, all_records,
          fetch_log, parse_log, served, pc>>

(***************************************************************************)
(* Characters and the str methods the program uses.                        *)
(***************************************************************************)
Digits == {"0", "1", "2", "3", "4", "5", "6", "7", "8", "9"}

\* str.isspace / the regex class \s, on the characters of the model
Whitespace == {" ", "\t", "\n", "\r"}

IsDigit(c) == c \in Digits

IsSpace(c) == c \in Whitespace

\* s[i:] with a 1-based i
Drop(s, i) == SubSeq(s, i, Len(s))

\* the first position at or after i that holds no whitespace, Len(s) + 1
\* when there is none
SkipSpace(s, i) ==
    CHOOSE j \in i..(Len(s) + 1) :
        /\ j = Len(s) + 1 \/ ~IsSpace(s[j])
        /\ \A k \in i..(j - 1) : IsSpace(s[k])

\* the last position at or before i that holds no whitespace, 0 when there
\* is none
SkipSpaceBack(s, i) ==
    CHOOSE j \in 0..i :
        /\ j = 0 \/ ~IsSpace(s[j])
        /\ \A k \in (j + 1)..i : IsSpace(s[k])

\* str.strip()
Strip(s) == SubSeq(s, SkipSpace(s, 1), SkipSpaceBack(s, Len(s)))

\* the first position at or after i that holds whitespace, Len(s) + 1 when
\* there is none
SkipWord(s, i) ==
    CHOOSE j \in i..(Len(s) + 1) :
        /\ j = Len(s) + 1 \/ IsSpace(s[j])
        /\ \A k \in i..(j - 1) : ~IsSpace(s[k])

\* the maximal whitespace-free runs of s from position i on
RECURSIVE SplitFrom(_, _)
SplitFrom(s, i) ==
    IF SkipSpace(s, i) > Len(s) THEN << >>
    ELSE <<SubSeq(s, SkipSpace(s, i), SkipWord(s, SkipSpace(s, i)) - 1)>>
            \o SplitFrom(s, SkipWord(s, SkipSpace(s, i)))

\* str.split() with no argument
Split(s) == SplitFrom(s, 1)

\* sep.join(parts)
RECURSIVE Join(_, _)
Join(sep, parts) ==
    IF parts = << >> THEN << >>
    ELSE IF Len(parts) = 1 THEN parts[1]
    ELSE parts[1] \o sep \o Join(sep, Tail(parts))

\* whether pat occurs in s at the 1-based position i
StartsAt(s, pat, i) ==
    /\ i >= 1
    /\ i + Len(pat) - 1 <= Len(s)
    /\ \A k \in 1..Len(pat) : s[i + k - 1] = pat[k]

\* str.find, 1-based: the leftmost position of pat in s, 0 when there is none
Find(s, pat) ==
    IF \E i \in 1..Len(s) : StartsAt(s, pat, i)
    THEN CHOOSE i \in 1..Len(s) :
            /\ StartsAt(s, pat, i)
            /\ \A j \in 1..(i - 1) : ~StartsAt(s, pat, j)
    ELSE 0

\* pat in s
Contains(s, pat) == Find(s, pat) # 0

\* s.split(sep): the pieces between the non-overlapping occurrences of sep,
\* taken left to right
RECURSIVE SplitOn(_, _)
SplitOn(s, sep) ==
    LET i == Find(s, sep)
    IN  IF i = 0 THEN <<s>>
        ELSE <<SubSeq(s, 1, i - 1)>> \o SplitOn(Drop(s, i + Len(sep)), sep)

\* the length of the line break at position i of s, 0 when there is none:
\* "\r\n" is one break
BreakLen(s, i) ==
    IF i > Len(s) THEN 0
    ELSE IF s[i] = "\r" /\ i < Len(s) /\ s[i + 1] = "\n" THEN 2
    ELSE IF s[i] \in {"\n", "\r"} THEN 1
    ELSE 0

\* the first position at or after i where a line break starts, Len(s) + 1
\* when there is none
LineEnd(s, i) ==
    CHOOSE j \in i..(Len(s) + 1) :
        /\ j = Len(s) + 1 \/ BreakLen(s, j) > 0
        /\ \A k \in i..(j - 1) : BreakLen(s, k) = 0

\* the lines of s from position i on
RECURSIVE SplitLinesFrom(_, _)
SplitLinesFrom(s, i) ==
    IF i > Len(s) THEN << >>
    ELSE <<SubSeq(s, i, LineEnd(s, i) - 1)>>
            \o SplitLinesFrom(s, LineEnd(s, i) + BreakLen(s, LineEnd(s, i)))

\* str.splitlines(): no line for the empty string, none after a final break
SplitLines(s) == SplitLinesFrom(s, 1)

(***************************************************************************)
(* parse_line                                                              *)
(***************************************************************************)
None == [none |-> TRUE]

\* DATE_PATTERN.match at the 1-based position i: \d{2}\.\d{2}\.\d{2}, the
\* shortest string the pattern accepts
DateAt(s, i) ==
    /\ i >= 1
    /\ i + 7 <= Len(s)
    /\ IsDigit(s[i])     /\ IsDigit(s[i + 1]) /\ s[i + 2] = "."
    /\ IsDigit(s[i + 3]) /\ IsDigit(s[i + 4]) /\ s[i + 5] = "."
    /\ IsDigit(s[i + 6]) /\ IsDigit(s[i + 7])

\* the length of the match at i: the quantifier {2,4} of the year is greedy
\* and takes every further digit up to four
DateLen(s, i) ==
    IF i + 8 <= Len(s) /\ IsDigit(s[i + 8])
    THEN IF i + 9 <= Len(s) /\ IsDigit(s[i + 9]) THEN 10 ELSE 9
    ELSE 8

\* DATE_PATTERN.search(line): m.start() as a 1-based position, 0 for no match
DateSearch(s) ==
    IF \E i \in 1..Len(s) : DateAt(s, i)
    THEN CHOOSE i \in 1..Len(s) :
            /\ DateAt(s, i)
            /\ \A j \in 1..(i - 1) : ~DateAt(s, j)
    ELSE 0

\* the alternatives of the group (dd|mm|zhzh) of the gender pattern
GenderCodes == {<<"d", "d">>, <<"m", "m">>, <<"zh", "zh">>}

AllSpace(s) == \A k \in 1..Len(s) : IsSpace(s[k])

\* the gender pattern \s+(code)\s*$ matched at the 1-based position i, the
\* code standing at j
GenderAt(s, i, j) ==
    /\ i >= 1
    /\ i < j
    /\ AllSpace(SubSeq(s, i, j - 1))
    /\ \E c \in GenderCodes : StartsAt(s, c, j)
    /\ AllSpace(Drop(s, j + 2))

\* the gender pattern without its leading \s+: a code that ends the text
GenderSearch_NoSpace(s) ==
    IF \E c \in GenderCodes : StartsAt(s, c, Len(s) - 1)
    THEN [start |-> Len(s) - 1, code |-> SubSeq(s, Len(s) - 1, Len(s))]
    ELSE [start |-> 0, code |-> << >>]

\* re.search of the gender pattern: start is gender_match.start() as a
\* 1-based position (0 for no match), code is gender_match.group(1)
GenderSearch(s) ==
    IF \E i \in 1..Len(s), j \in 1..Len(s) : GenderAt(s, i, j)
    THEN LET i == CHOOSE a \in 1..Len(s) :
                    /\ \E j \in 1..Len(s) : GenderAt(s, a, j)
                    /\ \A b \in 1..(a - 1) : \A j \in 1..Len(s) : ~GenderAt(s, b, j)
             j == CHOOSE b \in 1..Len(s) : GenderAt(s, i, b)
         IN  [start |-> i, code |-> SubSeq(s, j, j + 1)]
    ELSE [start |-> 0, code |-> << >>]

\* the dict returned for a line without a date that is not dropped
DegradedRecord(l) ==
    [raw |-> l, last_name |-> << >>, first_name |-> << >>, patronymic |-> << >>,
     date_birth |-> << >>, place |-> << >>]

\* lines 108-111 with extra taken from parts[2:], patronymic counted twice
NameFields_ExtraFromPatronymic(parts) ==
    [last_name  |-> IF Len(parts) > 0 THEN parts[1] ELSE << >>,
     first_name |-> IF Len(parts) > 1 THEN parts[2] ELSE << >>,
     patronymic |-> IF Len(parts) > 2 THEN parts[3] ELSE << >>,
     extra      |-> IF Len(parts) > 2 THEN Join(<<" ">>, Drop(parts, 3)) ELSE << >>]

\* the four name fields, by position in parts
NameFields(parts) ==
    [last_name  |-> IF Len(parts) > 0 THEN parts[1] ELSE << >>,
     first_name |-> IF Len(parts) > 1 THEN parts[2] ELSE << >>,
     patronymic |-> IF Len(parts) > 2 THEN parts[3] ELSE << >>,
     extra      |-> IF Len(parts) > 3 THEN Join(<<" ">>, Drop(parts, 4)) ELSE << >>]

\* the dict returned for a line with a date
DatedRecord(l) ==
    LET start       == DateSearch(l)
        end         == start + DateLen(l, start)
        date_str    == SubSeq(l, start, end - 1)
        before0     == Strip(SubSeq(l, 1, start - 1))
        after_date  == Strip(Drop(l, end))
        gm          == GenderSearch(before0)
        gender      == IF gm.start # 0 THEN gm.code ELSE << >>
        before_date == IF gm.start # 0
                       THEN Strip(SubSeq(before0, 1, gm.start - 1))
                       ELSE before0
        names       == NameFields(Split(before_date))
    IN  [last_name  |-> names.last_name,
         first_name |-> names.first_name,
         patronymic |-> names.patronymic,
         extra      |-> names.extra,
         gender     |-> gender,
         date_birth |-> date_str,
         place      |-> after_date,
         raw        |-> l]

\* parse_line dropping a line without a date only below two characters
ParseLine_ShortKept(l) ==
    IF DateSearch(l) = 0
    THEN IF Len(l) < 2 THEN None ELSE DegradedRecord(l)
    ELSE DatedRecord(l)

\* parse_line keeping the trimmed line in raw
ParseLine_RawTrimmed(l) ==
    IF DateSearch(l) = 0
    THEN IF Len(l) < 3 THEN None ELSE DegradedRecord(Strip(l))
    ELSE DatedRecord(Strip(l))

ParseLine(l) ==
    IF DateSearch(l) = 0
    THEN IF Len(l) < 3 THEN None ELSE DegradedRecord(l)
    ELSE DatedRecord(l)

(***************************************************************************)
(* parse_records                                                           *)
(*                                                                         *)
(* A page is a sequence of characters and tags; Tag stands for one whole   *)
(* piece of markup.  BeautifulSoup(html).get_text("\n") is modelled by     *)
(* what it does to such a page: the text nodes are the maximal tag-free    *)
(* runs, and they are joined by "\n".                                      *)
(***************************************************************************)
Tag == "<>"

\* the text nodes of the page, in document order
RECURSIVE TextNodes(_)
TextNodes(h) ==
    IF h = << >> THEN << >>
    ELSE IF Head(h) = Tag THEN TextNodes(Tail(h))
    ELSE LET i == Find(h, <<Tag>>)
         IN  IF i = 0 THEN <<h>>
             ELSE <<SubSeq(h, 1, i - 1)>> \o TextNodes(Drop(h, i))

\* soup.get_text("\n")
GetText(h) == Join(<<"\n">>, TextNodes(h))

marker ==
    <<"U", "S", "E", "R", "_", "L", "A", "S", "T", "_", "N", "A", "M", "E", " ",
      "U", "S", "E", "R", "_", "N", "A", "M", "E", " ",
      "U", "S", "E", "R", "_", "T", "I", "T", "L", "E", " ",
      "D", "A", "T", "E", "_", "B", " ",
      "N", "A", "M", "E", "_", "S", "I", "T", "E">>

\* the literals that end a block
Terminators ==
    { <<"a", "l", "e", "x", "a", "l", "e", "x", "1", "8", "0", "4">>,
      <<"#", "#">>,
      <<"V", "G", "D", ".", "r", "u">> }

IsTerminator(l) == \E t \in Terminators : Contains(l, t)

\* the inner loop with the terminator line skipped instead of ending the block
RECURSIVE ConsumeLines_SkipTerminator(_)
ConsumeLines_SkipTerminator(lines) ==
    IF lines = << >> THEN << >>
    ELSE LET l == Strip(Head(lines))
         IN  IF l = << >> \/ IsTerminator(l)
             THEN ConsumeLines_SkipTerminator(Tail(lines))
             ELSE <<ParseLine(l)>> \o ConsumeLines_SkipTerminator(Tail(lines))

\* the inner loop over the lines of one part: what it appends to records
RECURSIVE ConsumeLines(_)
ConsumeLines(lines) ==
    IF lines = << >> THEN << >>
    ELSE LET l == Strip(Head(lines))
         IN  IF l = << >> THEN ConsumeLines(Tail(lines))
             ELSE IF IsTerminator(l) THEN << >>
             ELSE <<ParseLine(l)>> \o ConsumeLines(Tail(lines))

\* the outer loop over the parts handed to it
RECURSIVE ConsumeParts(_)
ConsumeParts(parts) ==
    IF parts = << >> THEN << >>
    ELSE ConsumeLines(SplitLines(Strip(Head(parts)))) \o ConsumeParts(Tail(parts))

\* parse_records looping over parts instead of parts[1:]
ParseRecords_AllParts(h) ==
    SelectSeq(ConsumeParts(SplitOn(GetText(h), marker)), LAMBDA r : r # None)

ParseRecords(h) ==
    LET all_text == GetText(h)
        parts    == SplitOn(all_text, marker)
    IN  SelectSeq(ConsumeParts(Tail(parts)), LAMBDA r : r # None)

(***************************************************************************)
(* parse_line applied to one line, then to the raw field of its result.    *)
(***************************************************************************)
RECURSIVE Concat(_)
Concat(ss) == IF ss = << >> THEN << >> ELSE Head(ss) \o Concat(Tail(ss))

\* the longest line is the concatenation of MaxChunks pieces
MaxChunks == 4

\* the pieces the lines are put together from: a letter, a blank, a line
\* break, a digit, a dot, a date, two gender codes, two name tokens
LineChunks ==
    { <<"a">>, <<" ">>, <<"\n">>, <<"7">>, <<".">>,
      <<"1", "2", ".", "0", "3", ".", "1", "9">>,
      <<"d", "d">>, <<"m", "m">>,
      <<"b", " ", "c", " ">> }

LineInputs ==
    { Concat(cs) : cs \in UNION { [1..n -> LineChunks] : n \in 0..MaxChunks } }

Idle ==
    /\ html = << >> /\ records = << >>
    /\ page_num = 0 /\ page_html = None /\ all_records = << >>
    /\ fetch_log = << >> /\ parse_log = << >> /\ served = << >>

InitLine ==
    /\ line \in LineInputs
    /\ rec = None /\ rec2 = None
    /\ pc = "start"
    /\ Idle

\* rec = parse_line(line)
Tokenize ==
    /\ pc = "start"
    /\ rec' = ParseLine(line)
    /\ pc' = "parsed"
    /\ UNCHANGED <<line, rec2, html, records, page_num, page_html, all_records,
                   fetch_log, parse_log, served>>

\* rec2 = parse_line(rec["raw"]), for a rec that is a dict
Retokenize ==
    /\ pc = "parsed"
    /\ rec # None
    /\ rec2' = ParseLine(rec.raw)
    /\ pc' = "reparsed"
    /\ UNCHANGED <<line, rec, html, records, page_num, page_html, all_records,
                   fetch_log, parse_log, served>>

NextLine == Tokenize \/ Retokenize

SpecLine == InitLine /\ [][NextLine]_vars

(***************************************************************************)
(* The vocabulary of the statements about parse_line: what a date          *)
(* substring, the text before it and its tokens are, stated on the line    *)
(* itself.                                                                 *)
(***************************************************************************)
\* two digits, a dot, two digits, a dot, then two or four digits
DateShaped(s) ==
    /\ Len(s) \in {8, 10}
    /\ \A k \in 1..Len(s) : IF k \in {3, 6} THEN s[k] = "." ELSE IsDigit(s[k])

\* a date substring of l starts at position i
DateStartsAt(l, i) ==
    \E n \in {8, 10} : i + n - 1 <= Len(l) /\ DateShaped(SubSeq(l, i, i + n - 1))

HasDate(l) == \E i \in 1..Len(l) : DateStartsAt(l, i)

\* where the leftmost date substring of l starts
FirstDatePos(l) ==
    CHOOSE i \in 1..Len(l) :
        DateStartsAt(l, i) /\ \A j \in 1..(i - 1) : ~DateStartsAt(l, j)

\* the trimmed text before the leftmost date
BeforeDate(l) == Strip(SubSeq(l, 1, FirstDatePos(l) - 1))

\* b ends with the gender code c, and a whitespace character precedes it
EndsWithCode(b, c) ==
    /\ Len(b) >= Len(c) + 1
    /\ SubSeq(b, Len(b) - Len(c) + 1, Len(b)) = c
    /\ IsSpace(b[Len(b) - Len(c)])

HasTrailingCode(b) == \E c \in GenderCodes : EndsWithCode(b, c)

\* the tokens of the text before the date, its trailing gender code taken off
NameTokensOf(l) ==
    LET b == BeforeDate(l)
    IN  IF HasTrailingCode(b) THEN Split(SubSeq(b, 1, Len(b) - 2)) ELSE Split(b)

\* the tokens held by the four name fields of a record, in field order
FieldTokens(r) ==
    SelectSeq(<<r.last_name, r.first_name, r.patronymic>>, LAMBDA t : t # << >>)
        \o Split(r.extra)

StructuredFields ==
    {"last_name", "first_name", "patronymic", "extra", "gender", "date_birth", "place"}

Tokenized == pc \in {"parsed", "reparsed"}

(***************************************************************************)
(* C1: for every line containing a date substring, parse_line returns a    *)
(* Record whose date_birth is the leftmost date substring of the line      *)
(* (two-digit or four-digit year), copied verbatim, and whose raw is the   *)
(* line unchanged.                                                         *)
(***************************************************************************)
C1_FirstDateVerbatim ==
    (Tokenized /\ HasDate(line)) =>
        /\ rec # None
        /\ rec.raw = line
        /\ DateShaped(rec.date_birth)
        /\ StartsAt(line, rec.date_birth, FirstDatePos(line))

(***************************************************************************)
(* C2: for every line without a date whose length is at least 3,           *)
(* parse_line returns a Record whose raw is the line and in which every    *)
(* structured field of the data model is present and empty.                *)
(***************************************************************************)
C2_DegradedHasAllFields ==
    (Tokenized /\ ~HasDate(line) /\ Len(line) >= 3) =>
        /\ rec # None
        /\ rec.raw = line
        /\ \A f \in StructuredFields : f \in DOMAIN rec /\ rec[f] = << >>

(***************************************************************************)
(* C3, as stated: for every line without a date whose trimmed length is    *)
(* below 3, parse_line called directly emits nothing.                      *)
(***************************************************************************)
C3_TrimmedShortDropped ==
    (Tokenized /\ ~HasDate(line) /\ Len(Strip(line)) < 3) => rec = None

(***************************************************************************)
(* C3, amended: for every line without a date whose length as passed is    *)
(* below 3, parse_line emits nothing; and on the trimmed line, which is    *)
(* what parse_records passes, it emits nothing when the trimmed length is  *)
(* below 3.                                                                *)
(***************************************************************************)
C3_ShortDropped ==
    (Tokenized /\ ~HasDate(line)) =>
        /\ Len(line) < 3 => rec = None
        /\ Len(Strip(line)) < 3 => ParseLine(Strip(line)) = None

C3_Witness ==
    /\ pc = "parsed"
    /\ ~HasDate(line)
    /\ Len(line) = 2
    /\ rec = None

(***************************************************************************)
(* C6: in every Record produced by parse_line, date_birth is empty or has  *)
(* the shape dd.mm.yy or dd.mm.yyyy, the year never of three digits.       *)
(***************************************************************************)
C6_DateBirthShape ==
    (Tokenized /\ rec # None) =>
        rec.date_birth = << >> \/ DateShaped(rec.date_birth)

(***************************************************************************)
(* C7, as stated: for every line with a date, gender is a code exactly     *)
(* when the trimmed text before the date ends with that code preceded by   *)
(* whitespace, and then the code is not the trailing token of the name     *)
(* fields; otherwise gender is empty, and a text before the date that is   *)
(* only a code gives last_name that code.                                  *)
(***************************************************************************)
GenderIffTrailingCode ==
    /\ rec # None
    /\ rec.gender \in GenderCodes \cup {<< >>}
    /\ \A c \in GenderCodes : rec.gender = c <=> EndsWithCode(BeforeDate(line), c)
    /\ BeforeDate(line) \in GenderCodes => rec.last_name = BeforeDate(line)

C7_GenderNotInNames ==
    (Tokenized /\ HasDate(line)) =>
        /\ GenderIffTrailingCode
        /\ (rec.gender # << >> /\ FieldTokens(rec) # << >>) =>
                FieldTokens(rec)[Len(FieldTokens(rec))] # rec.gender

(***************************************************************************)
(* C7, amended: gender is a code exactly when the trimmed text before the  *)
(* date ends with that code preceded by whitespace; then exactly that one  *)
(* trailing occurrence is removed before name splitting, so the name       *)
(* fields hold the tokens of the text in front of it (a second code        *)
(* standing there stays a name token); otherwise gender is empty.          *)
(***************************************************************************)
C7_GenderOneOccurrenceRemoved ==
    (Tokenized /\ HasDate(line)) =>
        /\ GenderIffTrailingCode
        /\ rec.gender # << >> =>
                FieldTokens(rec) \o <<rec.gender>> = Split(BeforeDate(line))

C7_Witness ==
    /\ pc = "parsed"
    /\ HasDate(line)
    /\ rec.gender = <<"d", "d">>
    /\ rec.last_name = <<"b">>
    /\ rec.first_name = <<"c">>

(***************************************************************************)
(* C8: for every line with a date, with T the tokens of the text before    *)
(* the date after gender removal: last_name, first_name, patronymic are    *)
(* T[0], T[1], T[2] (empty where missing), extra is the rest joined by     *)
(* single blanks; no token is lost or duplicated; a date-only line gives   *)
(* four empty name fields.                                                 *)
(***************************************************************************)
C8_PositionalNames ==
    (Tokenized /\ HasDate(line)) =>
        LET T == NameTokensOf(line)
        IN  /\ rec # None
            /\ rec.last_name  = (IF Len(T) >= 1 THEN T[1] ELSE << >>)
            /\ rec.first_name = (IF Len(T) >= 2 THEN T[2] ELSE << >>)
            /\ rec.patronymic = (IF Len(T) >= 3 THEN T[3] ELSE << >>)
            /\ rec.extra = Join(<<" ">>, SubSeq(T, 4, Len(T)))
            /\ FieldTokens(rec) = T
            /\ FieldTokens(rec) \o (IF rec.gender = << >> THEN << >> ELSE <<rec.gender>>)
                    = Split(BeforeDate(line))
            /\ DateShaped(line) =>
                    /\ rec.last_name = << >> /\ rec.first_name = << >>
                    /\ rec.patronymic = << >> /\ rec.extra = << >>

C8_Witness ==
    /\ pc = "parsed"
    /\ HasDate(line)
    /\ rec.last_name = <<"b">>
    /\ rec.patronymic = <<"b">>
    /\ rec.extra = <<"c", " ", "a">>

(***************************************************************************)
(* C9: for every line on which parse_line returns a Record r, parse_line   *)
(* applied to r.raw returns a Record equal to r in every field.            *)
(***************************************************************************)
C9_Idempotent == pc = "reparsed" => rec2 = rec

C9_Witness ==
    /\ pc = "reparsed"
    /\ rec2 = rec
    /\ HasDate(line)
    /\ rec.gender = <<"m", "m">>
    /\ rec.raw # Strip(rec.raw)

(***************************************************************************)
(* parse_records applied to one page.                                      *)
(***************************************************************************)
\* the longest page is the concatenation of MaxDocChunks pieces
MaxDocChunks == 4

\* the pieces the pages are put together from: the marker, a record line
\* after a line break and between blanks, a noise character, a tag, and
\* the three terminators (the last one followed by a further line)
DocChunks ==
    { marker,
      <<"\n", " ", "a", " ", "1", "2", ".", "0", "3", ".", "1", "9", " ">>,
      <<"?">>,
      <<Tag>>,
      <<"#", "#", "\n", " ">>,
      <<"V", "G", "D", ".", "r", "u">>,
      <<"\n", "a", "l", "e", "x", "a", "l", "e", "x", "1", "8", "0", "4", "\n",
        "x", "y", "z">> }

DocInputs ==
    { Concat(cs) : cs \in UNION { [1..n -> DocChunks] : n \in 0..MaxDocChunks } }

InitRecords ==
    /\ html \in DocInputs
    /\ records = << >>
    /\ pc = "start"
    /\ line = << >> /\ rec = None /\ rec2 = None
    /\ page_num = 0 /\ page_html = None /\ all_records = << >>
    /\ fetch_log = << >> /\ parse_log = << >> /\ served = << >>

\* records = parse_records(html)
Segment ==
    /\ pc = "start"
    /\ records' = ParseRecords(html)
    /\ pc' = "segmented"
    /\ UNCHANGED <<line, rec, rec2, html, page_num, page_html, all_records,
                   fetch_log, parse_log, served>>

NextRecords == Segment

SpecRecords == InitRecords /\ [][NextRecords]_vars

(***************************************************************************)
(* The vocabulary of the statements about parse_records, stated on the     *)
(* flattened text of the page.                                             *)
(***************************************************************************)
Segmented == pc = "segmented"

\* the trimmed non-empty lines of a piece of text, in order
TrimmedLines(t) ==
    LET ls == SplitLines(t)
    IN  SelectSeq([i \in 1..Len(ls) |-> Strip(ls[i])], LAMBDA l : l # << >>)

\* the lines of ls that no terminator line precedes and that hold none
BeforeTerminator(ls) ==
    SelectSeq([i \in 1..Len(ls) |->
                  IF \E k \in 1..i : IsTerminator(ls[k]) THEN << >> ELSE ls[i]],
              LAMBDA l : l # << >>)

\* a line the tokenizer drops: no date and fewer than 3 characters
ShortNoise(l) == ~HasDate(l) /\ Len(l) < 3

\* the lines that survive in the segments segs
RECURSIVE SurvivingLines(_)
SurvivingLines(segs) ==
    IF segs = << >> THEN << >>
    ELSE SelectSeq(BeforeTerminator(TrimmedLines(Head(segs))),
                   LAMBDA l : ~ShortNoise(l))
            \o SurvivingLines(Tail(segs))

Raws(rs) == [i \in 1..Len(rs) |-> rs[i].raw]

(***************************************************************************)
(* C4: no text before the first occurrence of the marker contributes a     *)
(* record: the result is that of the text from the first marker on, and    *)
(* it is empty for every page without the marker, record lines or not.     *)
(***************************************************************************)
C4_TextBeforeMarkerIgnored ==
    Segmented =>
        LET all_text == GetText(html)
            first    == Find(all_text, marker)
        IN  IF first = 0
            THEN records = << >>
            ELSE records = ParseRecords(Drop(all_text, first))

C4_Witness ==
    /\ Segmented
    /\ ~Contains(GetText(html), marker)
    /\ HasDate(GetText(html))
    /\ records = << >>

(***************************************************************************)
(* C5: the raw values of the records are, in source order, exactly the     *)
(* trimmed non-empty lines that lie after a marker, that no terminator     *)
(* line of their own segment precedes, that hold no terminator and that    *)
(* are not short no-date noise; a terminator ends only its own segment.    *)
(***************************************************************************)
C5_RawsAreSurvivingLines ==
    Segmented =>
        /\ \A i \in 1..Len(records) : records[i] # None
        /\ Raws(records) = SurvivingLines(Tail(SplitOn(GetText(html), marker)))

C5_Witness ==
    /\ Segmented
    /\ LET segs == Tail(SplitOn(GetText(html), marker))
       IN  /\ Len(segs) = 2
           /\ Len(TrimmedLines(segs[1])) = 2
           /\ IsTerminator(TrimmedLines(segs[1])[1])
           /\ ~IsTerminator(TrimmedLines(segs[1])[2])
           /\ ~ShortNoise(TrimmedLines(segs[1])[2])
           /\ TrimmedLines(segs[2]) # << >>
    /\ Len(records) = 1

(***************************************************************************)
(* main: the page loop.  fetch_page either returns the text of the page,   *)
(* held here as [text |-> the characters], or, on a                        *)
(* requests.RequestException, None.                                        *)
(***************************************************************************)
\* the number of pages of the run (the environment sets it; 228 by default)
TOTAL_PAGES == 3

RecordLine == <<"\n", " ", "a", " ", "1", "2", ".", "0", "3", ".", "1", "9", " ">>

\* the texts a fetch may return: an empty page, a page without the marker,
\* a page with one block of one record, a page with two blocks
PageTexts ==
    { << >>,
      RecordLine,
      marker \o RecordLine,
      marker \o <<"x", "y", "z">> \o RecordLine \o marker \o <<"?", "?", "?", Tag, "?">> }

InitMain ==
    /\ page_num = 1
    /\ page_html = None
    /\ all_records = << >>
    /\ fetch_log = << >> /\ parse_log = << >> /\ served = << >>
    /\ pc = "fetch"
    /\ line = << >> /\ rec = None /\ rec2 = None
    /\ html = << >> /\ records = << >>

\* html = fetch_page(offset), for the next page_num of the range
FetchPage ==
    /\ pc = "fetch"
    /\ page_num <= TOTAL_PAGES
    /\ \E result \in {[text |-> t] : t \in PageTexts} \cup {None} :
        /\ page_html' = result
        /\ served' = Append(served, result)
    /\ fetch_log' = Append(fetch_log, (page_num - 1) * 10)
    /\ pc' = "fetched"
    /\ UNCHANGED <<line, rec, rec2, html, records, page_num, all_records, parse_log>>

\* the failed page kept and fetched again
SkipPage_Retry ==
    /\ pc = "fetched"
    /\ page_html = None
    /\ Len(fetch_log) <= TOTAL_PAGES
    /\ pc' = "fetch"
    /\ UNCHANGED <<line, rec, rec2, html, records, page_num, page_html, all_records,
                   fetch_log, parse_log, served>>

\* if html is None: continue
SkipPage ==
    /\ pc = "fetched"
    /\ page_html = None
    /\ page_num' = page_num + 1
    /\ pc' = "fetch"
    /\ UNCHANGED <<line, rec, rec2, html, records, page_html, all_records,
                   fetch_log, parse_log, served>>

\* records = parse_records(html); all_records.extend(records)
ParsePage ==
    /\ pc = "fetched"
    /\ page_html # None
    /\ parse_log' = Append(parse_log, page_num)
    /\ all_records' = all_records \o ParseRecords(page_html.text)
    /\ page_num' = page_num + 1
    /\ pc' = "fetch"
    /\ UNCHANGED <<line, rec, rec2, html, records, page_html, fetch_log, served>>

\* the range is exhausted: the loop ends and the records are written out
EndLoop ==
    /\ pc = "fetch"
    /\ page_num > TOTAL_PAGES
    /\ pc' = "done"
    /\ UNCHANGED <<line, rec, rec2, html, records, page_num, page_html, all_records,
                   fetch_log, parse_log, served>>

NextMain == FetchPage \/ SkipPage \/ ParsePage \/ EndLoop

SpecMain == InitMain /\ [][NextMain]_vars

\* the records of the pages 1..n that were fetched successfully, in page order
RECURSIVE RecordsOfServed(_)
RecordsOfServed(n) ==
    IF n = 0 THEN << >>
    ELSE RecordsOfServed(n - 1)
            \o (IF served[n] = None THEN << >> ELSE ParseRecords(served[n].text))

\* the pages among 1..n that were fetched successfully, ascending
RECURSIVE PagesServed(_)
PagesServed(n) ==
    IF n = 0 THEN << >>
    ELSE PagesServed(n - 1) \o (IF served[n] = None THEN << >> ELSE <<n>>)

\* the pages whose loop body has run to its end
PagesDone == IF pc = "fetched" THEN page_num - 1 ELSE Len(served)

====
